---- MODULE Spec2Model ----
(***************************************************************************)
(* Equipment inventory dashboard: the CSV row-inheritance parser           *)
(* (src/src/utils/csvParser.ts), the statistics, search, filter, sort and  *)
(* CSV export of the analyzer (src/src/utils/dataAnalyzer.ts) and the      *)
(* upload flow of the Home page (src/unnamed/part_004).                    *)
(*                                                                         *)
(* Text is modelled as a sequence of characters, each character a          *)
(* one-element string.  TLA+ strings are ASCII, so a CJK character is      *)
(* written as its pinyin syllable: <<"she","bei","bian","hao">> is the     *)
(* four-character header literal of the device-code column.  The seven     *)
(* CSV columns are named by the field names of the specification's data    *)
(* model: deviceCode, workLocation, name, spec, quantityText, powerText,   *)
(* remark.                                                                 *)
(***************************************************************************)
EXTENDS Integers, Sequences, FiniteSets, Bags, TLC

VARIABLES
    input,       \* the argument of validateData / processInheritance
    validation,  \* <<>> or <<ValidationResult>>
    devices,     \* <<>> or <<Device list returned by processInheritance>>
    base,        \* noise check: the row sequence before any insertion
    exported,    \* round trip: <<>> or <<text returned by exportToCSV>>
    reimported,  \* round trip: <<>> or <<Device list rebuilt from the text>>
    tasks,       \* Home: the handleFileUpload calls, by call number
    store,       \* localStorage: deviceData, uploadTime, fileName
    loading,     \* Home: useState loading
    error,       \* Home: useState error
    now,         \* the clock read by new Date()
    deviceData,  \* the Device list handed to the analyzer
    query,       \* the analyzer call made on the list, with its arguments
    result,      \* <<>> or <<what the call returned>>
    detail,      \* DeviceDetail: the deviceId of the route and the page state
    analysis     \* Analysis: the page state

vars == <<input, validation, devices, base, exported, reimported,
          tasks, store, loading, error, now,
          deviceData, query, result, detail, analysis>>

(***************************************************************************)
(* Bounds of the model.                                                    *)
(***************************************************************************)
MaxRows == 3

MaxBaseRows == 2

MaxNoise == 1

MaxExportRows == 2

MaxUploads == 2

MaxClock == 3

(***************************************************************************)
(* Text.                                                                   *)
(***************************************************************************)
Whitespace == {" ", "\t"}

\* The value of a property the object does not have.
Undefined == <<"undefined">>

\* JavaScript truthiness of a cell: undefined and '' are falsy.
Truthy(v) == v # Undefined /\ v # <<>>

RECURSIVE TrimStart(_)
\* String.prototype.trim, leading part.
TrimStart(s) ==
    IF s # <<>> /\ Head(s) \in Whitespace THEN TrimStart(Tail(s)) ELSE s

RECURSIVE TrimEnd(_)
\* String.prototype.trim, trailing part.
TrimEnd(s) ==
    IF s # <<>> /\ s[Len(s)] \in Whitespace
    THEN TrimEnd(SubSeq(s, 1, Len(s) - 1))
    ELSE s

Trim(s) == TrimEnd(TrimStart(s))

\* The TypeError of a method call on undefined, carried in the place of the
\* value whose evaluation raised it.
Thrown == <<"TypeError">>

\* row.x.trim()
CallTrim(v) == IF v = Undefined THEN Thrown ELSE Trim(v)

TrimOrThrow(v) == CallTrim(v)

\* The idiom  row.x?.trim() || ''
TrimOrEmpty(v) == IF v = Undefined THEN <<>> ELSE Trim(v)

\* The idiom  row.x && row.x.trim() !== ''
NonBlank(v) == Truthy(v) /\ Trim(v) # <<>>

(***************************************************************************)
(* Rows (RawCSVRow): a function from the columns the row has to text.      *)
(***************************************************************************)
Cols == {"deviceCode", "workLocation", "name", "spec", "quantityText",
         "powerText", "remark"}

\* requiredColumns / headers, in the order the code lists them.
ColumnOrder == <<"deviceCode", "workLocation", "name", "spec", "quantityText",
                 "powerText", "remark">>

HeaderText ==
    [c \in Cols |->
        CASE c = "deviceCode"   -> <<"she", "bei", "bian", "hao">>
          [] c = "workLocation" -> <<"gong", "zuo", "bu", "wei">>
          [] c = "name"         -> <<"ling", "bu", "jian", "ming", "cheng">>
          [] c = "spec"         -> <<"xing", "hao", "gui", "ge">>
          [] c = "quantityText" -> <<"shu", "liang", "ji", "mi", "shu">>
          [] c = "powerText"    -> <<"dian", "ji", "gong", "lv">>
          [] c = "remark"       -> <<"bei", "zhu">>]

\* row.x : the cell, or undefined when the row has no such property.
Cell(row, col) == IF col \in DOMAIN row THEN row[col] ELSE Undefined

\* Object.values(row).some(value => value && value.toString().trim() !== '')
HasContent(row) == \E c \in DOMAIN row : NonBlank(row[c])

IsHeaderRowNameOnly(row) == Cell(row, "name") = HeaderText["name"]

\* row.deviceCode === header literal || row.name === header literal
IsHeaderRow(row) ==
    \/ Cell(row, "deviceCode") = HeaderText["deviceCode"]
    \/ Cell(row, "name") = HeaderText["name"]

\* rows paired with their position in the input (the position is history:
\* the code keeps the order of the rows, not their numbers).
Numbered(rows) == [i \in 1..Len(rows) |-> [idx |-> i, row |-> rows[i]]]

KeepRow(nr) == HasContent(nr.row) /\ ~IsHeaderRow(nr.row)

\* const validRows = rows.filter(...)
ValidRows(rows) == SelectSeq(Numbered(rows), KeepRow)

OpensDevice(row) == NonBlank(Cell(row, "deviceCode"))

HasComponentUntrimmed(row) == Truthy(Cell(row, "name"))

HasComponent(row) == NonBlank(Cell(row, "name"))

NewDeviceUntrimmed(n, nr) ==
    [id           |-> <<"device", n>>,
     deviceCode   |-> Cell(nr.row, "deviceCode"),
     workLocation |-> IF Cell(nr.row, "workLocation") = Undefined
                      THEN <<>> ELSE Cell(nr.row, "workLocation"),
     components   |-> <<>>,
     srcRow       |-> nr.idx]

\* currentDevice = { id, deviceCode, workLocation, components: [] }
\* (srcRow is history: the input position of the opening row)
NewDevice(n, nr) ==
    [id           |-> <<"device", n>>,
     deviceCode   |-> CallTrim(Cell(nr.row, "deviceCode")),
     workLocation |-> TrimOrEmpty(Cell(nr.row, "workLocation")),
     components   |-> <<>>,
     srcRow       |-> nr.idx]

\* const component = { id, name, spec, quantityText, powerText, remark }
NewComponent(n, nr) ==
    [id           |-> <<"component", n>>,
     name         |-> CallTrim(Cell(nr.row, "name")),
     spec         |-> TrimOrEmpty(Cell(nr.row, "spec")),
     quantityText |-> TrimOrEmpty(Cell(nr.row, "quantityText")),
     powerText    |-> TrimOrEmpty(Cell(nr.row, "powerText")),
     remark       |-> TrimOrEmpty(Cell(nr.row, "remark")),
     srcRow       |-> nr.idx]

PushComponentFront(list, c) == <<c>> \o list

\* currentDevice.components.push(component)
PushComponent(list, c) == Append(list, c)

\* The state of the loop: devices, currentDevice (<<>> is null) and the
\* two counters.
LoopStart ==
    [devices |-> <<>>, currentDevice |-> <<>>,
     deviceCounter |-> 1, componentCounter |-> 1]

LoopStepPerDeviceIds(acc, nr) ==
    LET opened ==
            IF OpensDevice(nr.row)
            THEN [acc EXCEPT
                    !.devices = @ \o acc.currentDevice,
                    !.currentDevice = <<NewDevice(acc.deviceCounter, nr)>>,
                    !.deviceCounter = @ + 1]
            ELSE acc
    IN  IF HasComponent(nr.row) /\ opened.currentDevice # <<>>
        THEN [opened EXCEPT
                !.currentDevice[1].components =
                    PushComponent(@, NewComponent(Len(@) + 1, nr))]
        ELSE opened

\* One iteration of  for (const row of validRows).
LoopStep(acc, nr) ==
    LET opened ==
            IF OpensDevice(nr.row)
            THEN [acc EXCEPT
                    !.devices = @ \o acc.currentDevice,
                    !.currentDevice = <<NewDevice(acc.deviceCounter, nr)>>,
                    !.deviceCounter = @ + 1]
            ELSE acc
    IN  IF HasComponent(nr.row) /\ opened.currentDevice # <<>>
        THEN [opened EXCEPT
                !.currentDevice[1].components =
                    PushComponent(@, NewComponent(opened.componentCounter, nr)),
                !.componentCounter = @ + 1]
        ELSE opened

RECURSIVE Loop(_, _)
Loop(acc, nrs) ==
    IF nrs = <<>> THEN acc ELSE Loop(LoopStep(acc, Head(nrs)), Tail(nrs))

FlushNothing(acc) == acc.devices

\* if (currentDevice) devices.push(currentDevice); return devices
Flush(acc) == acc.devices \o acc.currentDevice

ProcessInheritance(rows) == Flush(Loop(LoopStart, ValidRows(rows)))

(***************************************************************************)
(* validateData.                                                           *)
(***************************************************************************)
Digits == {"0", "1", "2", "3", "4", "5", "6", "7", "8", "9"}

UpperCase == <<"A", "B", "C", "D", "E", "F", "G", "H", "I", "J", "K", "L", "M",
               "N", "O", "P", "Q", "R", "S", "T", "U", "V", "W", "X", "Y", "Z">>

LowerCase == <<"a", "b", "c", "d", "e", "f", "g", "h", "i", "j", "k", "l", "m",
               "n", "o", "p", "q", "r", "s", "t", "u", "v", "w", "x", "y", "z">>

\* String.prototype.toLowerCase on one character.
LowerChar(c) ==
    IF \E i \in 1..Len(UpperCase) : UpperCase[i] = c
    THEN LowerCase[CHOOSE i \in 1..Len(UpperCase) : UpperCase[i] = c]
    ELSE c

ToLowerCase(s) == [i \in 1..Len(s) |-> LowerChar(s[i])]

\* \d*\.?\d*
NumberLike(s) ==
    /\ \A i \in 1..Len(s) : s[i] \in Digits \cup {"."}
    /\ Cardinality({i \in 1..Len(s) : s[i] = "."}) <= 1

\* (kw|KW|qian wa)? under the i flag
UnitSuffix(s) == ToLowerCase(s) \in {<<"k", "w">>, <<"qian", "wa">>}

\* powerPattern.test(power),  /^\d*\.?\d*(kw|KW|qian wa)?$/i
MatchesPowerPattern(s) ==
    \/ NumberLike(s)
    \/ /\ Len(s) >= 2
       /\ UnitSuffix(SubSeq(s, Len(s) - 1, Len(s)))
       /\ NumberLike(SubSeq(s, 1, Len(s) - 2))

Message(kind, columns, row, text) ==
    [kind |-> kind, columns |-> columns, row |-> row, text |-> text]

EmptyFileError == Message("emptyFile", <<>>, 0, <<>>)

MissingColumnsError(columns) == Message("missingColumns", columns, 0, <<>>)

NoDevicesError == Message("noDevices", <<>>, 0, <<>>)

NoComponentsWarning == Message("noComponents", <<>>, 0, <<>>)

PowerFormatWarning(row, text) == Message("powerFormat", <<>>, row, text)

MissingColumnsAnyRow(rows) ==
    LET Missing(c) == \E i \in 1..Len(rows) : c \notin DOMAIN rows[i]
    IN  SelectSeq(ColumnOrder, Missing)

\* requiredColumns.filter(col => !(col in firstRow))
MissingColumns(rows) ==
    LET Missing(c) == c \notin DOMAIN rows[1]
    IN  SelectSeq(ColumnOrder, Missing)

SkippedNever(row) == FALSE

\* if (row.deviceCode === header literal) continue;
SkippedByValidator(row) == Cell(row, "deviceCode") = HeaderText["deviceCode"]

DeviceCount(rows) ==
    Cardinality({i \in 1..Len(rows) :
        ~SkippedByValidator(rows[i]) /\ NonBlank(Cell(rows[i], "deviceCode"))})

ComponentCount(rows) ==
    Cardinality({i \in 1..Len(rows) :
        ~SkippedByValidator(rows[i]) /\ NonBlank(Cell(rows[i], "name"))})

RECURSIVE PowerWarnings(_, _)
\* the second loop of validateData, from row i on
PowerWarnings(rows, i) ==
    IF i > Len(rows) THEN <<>>
    ELSE LET power == Cell(rows[i], "powerText")
         IN  (IF NonBlank(power) /\ ~MatchesPowerPattern(Trim(power))
              THEN <<PowerFormatWarning(i, Trim(power))>>
              ELSE <<>>) \o PowerWarnings(rows, i + 1)

ResultStrict(errors, warnings) ==
    [isValid  |-> Len(errors) = 0 /\ Len(warnings) = 0,
     errors   |-> errors,
     warnings |-> warnings]

\* return { isValid: errors.length === 0, errors, warnings }
Result(errors, warnings) ==
    [isValid  |-> Len(errors) = 0,
     errors   |-> errors,
     warnings |-> warnings]

EmptyInputFallsThrough ==
    Result(<<EmptyFileError, NoDevicesError>>, <<NoComponentsWarning>>)

\* errors.push(empty file); return { isValid: false, errors, warnings }
EmptyInputResult ==
    [isValid |-> FALSE, errors |-> <<EmptyFileError>>, warnings |-> <<>>]

\* validateData after the empty-input check
FullChecks(rows) ==
    LET missing  == MissingColumns(rows)
        errors   == (IF Len(missing) > 0
                     THEN <<MissingColumnsError(missing)>> ELSE <<>>)
                    \o (IF DeviceCount(rows) = 0
                        THEN <<NoDevicesError>> ELSE <<>>)
        warnings == (IF ComponentCount(rows) = 0
                     THEN <<NoComponentsWarning>> ELSE <<>>)
                    \o PowerWarnings(rows, 1)
    IN  Result(errors, warnings)

\* in : [present, rows]; present = FALSE is a null or undefined argument.
ValidateData(in) ==
    IF ~in.present \/ Len(in.rows) = 0
    THEN EmptyInputResult
    ELSE FullChecks(in.rows)

(***************************************************************************)
(* Input rows of the model.                                                *)
(***************************************************************************)
Row(dev, loc, name, spec, qty, power, remark) ==
    [c \in Cols |->
        CASE c = "deviceCode"   -> dev
          [] c = "workLocation" -> loc
          [] c = "name"         -> name
          [] c = "spec"         -> spec
          [] c = "quantityText" -> qty
          [] c = "powerText"    -> power
          [] c = "remark"       -> remark]

A1 == <<"A", "1">>

B2 == <<"B", "2">>

L1 == <<"L", "a">>

N1 == <<"N", "1">>

N2 == <<"n", "2">>

S1 == <<"S", "\"", ",", "1">>

NoiseRows ==
    { Row(<<>>, <<>>, <<>>, <<>>, <<>>, <<>>, <<>>),
      HeaderText,
      Row(HeaderText["deviceCode"], <<>>, N1, <<>>, <<>>, <<>>, <<>>),
      Row(A1, <<>>, HeaderText["name"], <<>>, <<>>, <<>>, <<>>) }

DataRows ==
    { Row(<<" ">>, <<>>, <<"\t">>, <<>>, <<>>, <<>>, <<>>),
      Row(A1, L1, N1, S1, <<"2">>, <<"5", "K", "W">>, <<>>),
      Row(<<" ">> \o B2 \o <<" ">>, <<" ">> \o L1, <<>>, <<>>, <<>>,
          <<"5", "h", "p">>, <<>>),
      Row(<<>>, <<>>, N2, <<>>, <<"1">>, <<"0", ".", "5", "k", "w">>, <<"r">>),
      Row(<<" ">>, <<>>, <<" ">> \o N1 \o <<"\t">>, <<" ">> \o S1, <<>>,
          <<"a", "b">>, <<>>),
      Row(<<>>, <<>>, <<" ">>, <<>>, <<>>, <<" ", "3", ".", "qian", "wa">>, <<"r">>),
      Row(<<" ">> \o HeaderText["deviceCode"], L1, N1, <<>>, <<>>, <<>>, <<>>),
      Row(<<>>, <<>>, HeaderText["name"] \o <<" ">>, <<>>, <<>>, <<>>, <<>>),
      Row(A1, <<" ">>, N2, <<>>, <<>>, <<"1", ".", "2", ".">>, <<>>),
      [c \in {"deviceCode", "name"} |-> IF c = "deviceCode" THEN B2 ELSE N2] }

RowPool == NoiseRows \cup DataRows

RECURSIVE SeqsUpTo(_, _)
\* the sequences over S of length at most n
SeqsUpTo(S, n) ==
    IF n = 0 THEN {<<>>}
    ELSE LET shorter == SeqsUpTo(S, n - 1)
         IN  shorter \cup {Append(s, x) : s \in shorter, x \in S}

Present(rows) == [present |-> TRUE, rows |-> rows]

Absent == [present |-> FALSE, rows |-> <<>>]

(***************************************************************************)
(* Idle values of the variables a specification does not use.              *)
(***************************************************************************)
NoStore == [deviceData |-> <<>>, uploadTime |-> <<>>, fileName |-> <<>>]

ParseIdle ==
    /\ input = Absent /\ validation = <<>> /\ devices = <<>>

NoiseIdle == base = <<>>

RoundTripIdle == exported = <<>> /\ reimported = <<>>

UploadIdle ==
    /\ tasks = <<>> /\ store = NoStore /\ loading = FALSE
    /\ error = <<>> /\ now = 0

NoQuery == [op |-> "none"]

AnalyzeIdle == deviceData = <<>> /\ query = NoQuery /\ result = <<>>

analyzeVars == <<deviceData, query, result>>

\* the pages are not mounted
NotMounted == [mounted |-> FALSE]

PagesIdle == detail = NotMounted /\ analysis = NotMounted

pageVars == <<detail, analysis>>

parseVars == <<input, validation, devices>>

noiseVars == <<base>>

roundTripVars == <<exported, reimported>>

uploadVars == <<tasks, store, loading, error, now>>

(***************************************************************************)
(* SpecParse: validateData and processInheritance applied to an input.     *)
(***************************************************************************)
InitParse ==
    /\ input \in {Absent} \cup {Present(rows) : rows \in SeqsUpTo(RowPool, MaxRows)}
    /\ validation = <<>>
    /\ devices = <<>>
    /\ NoiseIdle /\ RoundTripIdle /\ UploadIdle /\ AnalyzeIdle /\ PagesIdle

Validate ==
    /\ validation = <<>>
    /\ validation' = <<ValidateData(input)>>
    /\ UNCHANGED <<input, devices, noiseVars, roundTripVars,
                   uploadVars, analyzeVars, pageVars>>

Reconstruct ==
    /\ input.present
    /\ devices = <<>>
    /\ devices' = <<ProcessInheritance(input.rows)>>
    /\ UNCHANGED <<input, validation, noiseVars, roundTripVars,
                   uploadVars, analyzeVars, pageVars>>

NextParse == Validate \/ Reconstruct

SpecParse == InitParse /\ [][NextParse]_vars

(***************************************************************************)
(* Vocabulary of the claims about rows, stated without the operators of    *)
(* the parser.                                                             *)
(***************************************************************************)
\* the cell is absent, empty or made of whitespace only
BlankCell(row, col) ==
    \/ col \notin DOMAIN row
    \/ \A i \in 1..Len(row[col]) : row[col][i] \in Whitespace

\* t is v without its leading and trailing whitespace
IsTrimOf(t, v) ==
    \E a \in 0..Len(v) : \E b \in a..Len(v) :
        /\ t = SubSeq(v, a + 1, b)
        /\ \A i \in (1..a) \cup ((b + 1)..Len(v)) : v[i] \in Whitespace
        /\ t # <<>> => t[1] \notin Whitespace /\ t[Len(t)] \notin Whitespace

\* t is the trimmed cell of the row, the empty text when the cell is absent
IsTrimOfCell(t, row, col) ==
    IF col \in DOMAIN row THEN IsTrimOf(t, row[col]) ELSE t = <<>>

\* the row is a stray header row or has no content
Filtered(row) ==
    \/ \A c \in Cols : BlankCell(row, c)
    \/ (\E c \in {"deviceCode", "name"} :
            c \in DOMAIN row /\ row[c] = HeaderText[c])

\* positions of the rows that survive the filter and open a device
DeviceRows(rows) ==
    {i \in 1..Len(rows) : ~Filtered(rows[i]) /\ ~BlankCell(rows[i], "deviceCode")}

\* positions of the rows that survive the filter and name a component
ComponentRows(rows) ==
    {i \in 1..Len(rows) : ~Filtered(rows[i]) /\ ~BlankCell(rows[i], "name")}

SurvivingRows(rows) == {i \in 1..Len(rows) : ~Filtered(rows[i])}

Max(S) == CHOOSE m \in S : \A x \in S : x <= m

Min(S) == CHOOSE m \in S : \A x \in S : m <= x

RECURSIVE SumLen(_)
SumLen(ds) == IF ds = <<>> THEN 0 ELSE Len(Head(ds).components) + SumLen(Tail(ds))

Reconstructed == devices # <<>>

(***************************************************************************)
(* C1: processInheritance returns exactly one Device per row that survives *)
(* the header/blank filter and has a non-blank device identifier; a        *)
(* device row with no component row from itself up to the next device row  *)
(* (or the end) yields a Device with an empty component list.              *)
(***************************************************************************)
C1_OneDevicePerDeviceRow ==
    Reconstructed =>
        LET D    == devices[1]
            rows == input.rows
            open == DeviceRows(rows)
        IN  /\ Len(D) = Cardinality(open)
            /\ {D[k].srcRow : k \in 1..Len(D)} = open
            /\ \A k \in 1..Len(D) :
                 LET i    == D[k].srcRow
                     next == Min({j \in open : j > i} \cup {Len(rows) + 1})
                 IN  (\A j \in ComponentRows(rows) : j < i \/ j >= next)
                     => D[k].components = <<>>

\* two device rows in a row, the first without a component, and a filtered row
C1_Witness ==
    /\ Reconstructed
    /\ Len(devices[1]) >= 2
    /\ devices[1][1].components = <<>>
    /\ devices[1][2].srcRow = devices[1][1].srcRow + 1
    /\ Cardinality(SurvivingRows(input.rows)) < Len(input.rows)

(***************************************************************************)
(* C2: the total number of Components equals the number of surviving rows  *)
(* with a non-blank component name at or after the first device-opening    *)
(* row; component rows before any device row are dropped, and the call     *)
(* still returns.                                                          *)
(***************************************************************************)
C2_ComponentCount ==
    Reconstructed =>
        LET rows == input.rows
            open == DeviceRows(rows)
        IN  SumLen(devices[1]) =
                Cardinality({i \in ComponentRows(rows) : \E j \in open : j <= i})

\* a component row before the first device row was dropped, a later one kept
C2_Witness ==
    /\ Reconstructed
    /\ SumLen(devices[1]) >= 1
    /\ \E i \in ComponentRows(input.rows) :
          \A j \in DeviceRows(input.rows) : i < j

(***************************************************************************)
(* C3: every Component is in the Device opened by the nearest surviving    *)
(* row at or before its own row that has a non-blank device identifier,    *)
(* and the Device's deviceCode and workLocation are the trimmed cells of   *)
(* that opening row (workLocation empty when blank).                       *)
(***************************************************************************)
C3_InheritDownward ==
    Reconstructed =>
        LET D    == devices[1]
            rows == input.rows
            open == DeviceRows(rows)
        IN  \A k \in 1..Len(D) :
              /\ D[k].srcRow \in open
              /\ IsTrimOfCell(D[k].deviceCode, rows[D[k].srcRow], "deviceCode")
              /\ IsTrimOfCell(D[k].workLocation, rows[D[k].srcRow], "workLocation")
              /\ \A n \in 1..Len(D[k].components) :
                   LET r == D[k].components[n].srcRow
                   IN  /\ r \in ComponentRows(rows)
                       /\ D[k].srcRow = Max({j \in open : j <= r})

\* a component two rows below the padded row that opened its device
C3_Witness ==
    /\ Reconstructed
    /\ \E k \in 1..Len(devices[1]) :
         LET d == devices[1][k]
         IN  /\ d.deviceCode # input.rows[d.srcRow]["deviceCode"]
             /\ \E n \in 1..Len(d.components) :
                    d.components[n].srcRow >= d.srcRow + 2

(***************************************************************************)
(* C4: the Device sequence and every Device's Component sequence are in    *)
(* the order of the rows they originate from.                              *)
(***************************************************************************)
C4_RowOrder ==
    Reconstructed =>
        LET D == devices[1]
        IN  /\ \A k, l \in 1..Len(D) : k < l => D[k].srcRow < D[l].srcRow
            /\ \A k \in 1..Len(D) :
                 \A a, b \in 1..Len(D[k].components) :
                    a < b => D[k].components[a].srcRow < D[k].components[b].srcRow

\* two devices, one of them with two components
C4_Witness ==
    /\ Reconstructed
    /\ Len(devices[1]) >= 2
    /\ \E k \in 1..Len(devices[1]) : Len(devices[1][k].components) >= 2

(***************************************************************************)
(* C9: validateData returns isValid = true exactly when its errors list is *)
(* empty; warnings never make isValid false.                               *)
(***************************************************************************)
C9_ValidIffNoErrors ==
    validation # <<>> => (validation[1].isValid <=> validation[1].errors = <<>>)

\* valid although both kinds of warning were raised
C9_Witness ==
    /\ validation # <<>>
    /\ validation[1].isValid
    /\ \E i, j \in 1..Len(validation[1].warnings) :
          /\ validation[1].warnings[i].kind = "noComponents"
          /\ validation[1].warnings[j].kind = "powerFormat"

(***************************************************************************)
(* C10: on an empty or absent row sequence validateData returns isValid =  *)
(* false with the empty-file error alone and no warnings: none of the      *)
(* later checks has run.                                                   *)
(***************************************************************************)
C10_EmptyInputShortCircuits ==
    (validation # <<>> /\ (~input.present \/ input.rows = <<>>)) =>
        /\ ~validation[1].isValid
        /\ Len(validation[1].errors) = 1
        /\ validation[1].errors[1].kind = "emptyFile"
        /\ validation[1].warnings = <<>>

\* validateData has returned for the absent argument
C10_Witness ==
    /\ validation # <<>>
    /\ ~input.present

(***************************************************************************)
(* What the claims compare of a Device list: the device codes, the         *)
(* work-locations and the component values, in order (no id, no history).  *)
(***************************************************************************)
ComponentValues(c) ==
    [name |-> c.name, spec |-> c.spec, quantityText |-> c.quantityText,
     powerText |-> c.powerText, remark |-> c.remark]

DeviceValues(d) ==
    [deviceCode |-> d.deviceCode, workLocation |-> d.workLocation,
     components |-> [n \in 1..Len(d.components) |-> ComponentValues(d.components[n])]]

Values(ds) == [k \in 1..Len(ds) |-> DeviceValues(ds[k])]

(***************************************************************************)
(* SpecNoise: stray header rows and empty rows inserted into a row         *)
(* sequence, processInheritance run again after every insertion.           *)
(***************************************************************************)
InsertAt(rows, p, x) == SubSeq(rows, 1, p - 1) \o <<x>> \o SubSeq(rows, p, Len(rows))

InitNoise ==
    /\ input \in {Present(rows) : rows \in SeqsUpTo(DataRows, MaxBaseRows)}
    /\ validation = <<>>
    /\ devices = <<>>
    /\ base = <<>>
    /\ RoundTripIdle /\ UploadIdle /\ AnalyzeIdle /\ PagesIdle

ReconstructBase ==
    /\ base = <<>>
    /\ devices' = <<ProcessInheritance(input.rows)>>
    /\ base' = <<[rows |-> input.rows, devices |-> devices'[1]]>>
    /\ UNCHANGED <<input, validation, roundTripVars, uploadVars,
                   analyzeVars, pageVars>>

InsertNoise ==
    /\ base # <<>>
    /\ Len(input.rows) < Len(base[1].rows) + MaxNoise
    /\ \E p \in 1..(Len(input.rows) + 1) : \E x \in NoiseRows :
          /\ input' = Present(InsertAt(input.rows, p, x))
          /\ devices' = <<ProcessInheritance(input'.rows)>>
    /\ UNCHANGED <<validation, base, roundTripVars, uploadVars,
                   analyzeVars, pageVars>>

NextNoise == ReconstructBase \/ InsertNoise

SpecNoise == InitNoise /\ [][NextNoise]_vars

(***************************************************************************)
(* C5: inserting, at any positions, rows whose device cell is the header   *)
(* literal, rows whose component-name cell is the header literal, or rows  *)
(* whose cells are all empty does not change the device codes,             *)
(* work-locations, component values or their order in the result.          *)
(***************************************************************************)
C5_NoiseRowsIgnored ==
    base # <<>> => Values(devices[1]) = Values(base[1].devices)

\* a row was inserted between a device row and its component row
C5_Witness ==
    /\ base # <<>>
    /\ Len(input.rows) > Len(base[1].rows)
    /\ \E k \in 1..Len(devices[1]) : \E n \in 1..Len(devices[1][k].components) :
          /\ devices[1][k].components[n].srcRow > devices[1][k].srcRow + 1
          /\ \A i \in (devices[1][k].srcRow + 1)..(devices[1][k].components[n].srcRow - 1) :
                input.rows[i] \in NoiseRows

(***************************************************************************)
(* exportToCSV, and the reading back of its text by parseFile.             *)
(***************************************************************************)
Quote == "\""

Comma == ","

NewLine == "\n"

\* const headers = [...]
ExportHeader == [i \in 1..Len(ColumnOrder) |-> HeaderText[ColumnOrder[i]]]

ComponentCells(c) == <<c.name, c.spec, c.quantityText, c.powerText, c.remark>>

\* the rows pushed for one device
ExportDevice(d) ==
    IF Len(d.components) = 0
    THEN <<<<d.deviceCode, d.workLocation, <<>>, <<>>, <<>>, <<>>, <<>>>>>>
    ELSE <<<<d.deviceCode, d.workLocation>> \o ComponentCells(d.components[1])>>
         \o [n \in 1..(Len(d.components) - 1) |->
                <<<<>>, <<>>>> \o ComponentCells(d.components[n + 1])]

RECURSIVE ExportRows(_)
\* devices.forEach(device => rows.push(...)), after the header row
ExportRows(ds) ==
    IF ds = <<>> THEN <<>> ELSE ExportDevice(Head(ds)) \o ExportRows(Tail(ds))

RECURSIVE EscapeQuotes(_)
\* cell.toString().replace(/"/g, '""')
EscapeQuotes(s) ==
    IF s = <<>> THEN <<>>
    ELSE (IF Head(s) = Quote THEN <<Quote, Quote>> ELSE <<Head(s)>>)
         \o EscapeQuotes(Tail(s))

QuoteCell(cell) == <<Quote>> \o EscapeQuotes(cell) \o <<Quote>>

RECURSIVE Join(_, _)
\* Array.prototype.join
Join(parts, sep) ==
    IF parts = <<>> THEN <<>>
    ELSE IF Len(parts) = 1 THEN parts[1]
    ELSE parts[1] \o <<sep>> \o Join(Tail(parts), sep)

ExportLine(row) == Join([i \in 1..Len(row) |-> QuoteCell(row[i])], Comma)

\* exportToCSV: the text
ExportToCSV(ds) ==
    LET rows == <<ExportHeader>> \o ExportRows(ds)
    IN  Join([i \in 1..Len(rows) |-> ExportLine(rows[i])], NewLine)

\* The reader of delimited text behind parseFile: fields are separated by
\* commas, records by line breaks, a field in double quotes may hold both,
\* and a doubled quote inside it stands for one quote.  A character is
\* outside every quoted field when an even number of quotes precedes it.
Outside(text, i) == Cardinality({j \in 1..(i - 1) : text[j] = Quote}) % 2 = 0

Breaks(text, sep) == {i \in 1..Len(text) : text[i] = sep /\ Outside(text, i)}

Kth(S, k) == CHOOSE x \in S : Cardinality({y \in S : y < x}) = k - 1

\* the pieces of the text between the separators at the positions B
Pieces(text, B) ==
    LET n == Cardinality(B)
    IN  [k \in 1..(n + 1) |->
            SubSeq(text,
                   IF k = 1 THEN 1 ELSE Kth(B, k - 1) + 1,
                   IF k = n + 1 THEN Len(text) ELSE Kth(B, k) - 1)]

RECURSIVE Unescape(_)
\* the inside of a quoted field: "" stands for "
Unescape(s) ==
    IF Len(s) >= 2 /\ s[1] = Quote /\ s[2] = Quote
    THEN <<Quote>> \o Unescape(SubSeq(s, 3, Len(s)))
    ELSE IF s = <<>> THEN <<>>
    ELSE <<s[1]>> \o Unescape(Tail(s))

FieldText(f) ==
    IF Len(f) >= 2 /\ f[1] = Quote /\ f[Len(f)] = Quote
    THEN Unescape(SubSeq(f, 2, Len(f) - 1))
    ELSE f

ReadRecord(line) ==
    LET fields == Pieces(line, Breaks(line, Comma))
    IN  [i \in 1..Len(fields) |-> FieldText(fields[i])]

\* the records of the text, and whether a quoted field is left open
ReadAll(text) ==
    LET lines == Pieces(text, Breaks(text, NewLine))
    IN  [records |-> [k \in 1..Len(lines) |-> ReadRecord(lines[k])],
         bad     |-> ~Outside(text, Len(text) + 1)]

\* header: true -- the first record names the properties of the others
RowObject(header, record) ==
    LET known == {i \in 1..Len(header) :
                    /\ i <= Len(record)
                    /\ \E c \in Cols : HeaderText[c] = header[i]}
        ColOf(i) == CHOOSE c \in Cols : HeaderText[c] = header[i]
    IN  [c \in {ColOf(i) : i \in known} |->
            record[CHOOSE i \in known : ColOf(i) = c]]

\* parseFile on a text: results.data, and whether results.errors is empty
ParseFile(text) ==
    LET st      == ReadAll(text)
        header  == st.records[1]
        n       == Len(st.records) - 1
    IN  [data  |-> [k \in 1..n |-> RowObject(header, st.records[k + 1])],
         clean |-> /\ ~st.bad
                   /\ \A k \in 1..n : Len(st.records[k + 1]) = Len(header)]

(***************************************************************************)
(* SpecRoundTrip: processInheritance, exportToCSV of its result, and       *)
(* processInheritance of the rows read back from the exported text.        *)
(***************************************************************************)
InitRoundTrip ==
    /\ input \in {Present(rows) : rows \in SeqsUpTo(RowPool, MaxExportRows)}
    /\ validation = <<>>
    /\ devices = <<>>
    /\ exported = <<>>
    /\ reimported = <<>>
    /\ NoiseIdle /\ UploadIdle /\ AnalyzeIdle /\ PagesIdle

Export ==
    /\ devices # <<>>
    /\ exported = <<>>
    /\ exported' = <<ExportToCSV(devices[1])>>
    /\ UNCHANGED <<parseVars, reimported, noiseVars, uploadVars,
                   analyzeVars, pageVars>>

Reimport ==
    /\ exported # <<>>
    /\ reimported = <<>>
    /\ LET parsed == ParseFile(exported[1])
       IN  reimported' = <<[clean   |-> parsed.clean,
                            devices |-> ProcessInheritance(parsed.data)]>>
    /\ UNCHANGED <<parseVars, exported, noiseVars, uploadVars,
                   analyzeVars, pageVars>>

NextRoundTrip == Reconstruct \/ Export \/ Reimport

SpecRoundTrip == InitRoundTrip /\ [][NextRoundTrip]_vars

(***************************************************************************)
(* C6: round trip -- for every Device list D produced by                   *)
(* processInheritance, processInheritance of the data rows of              *)
(* exportToCSV(D) has the same device codes, work-locations and component  *)
(* values in the same order as D.                                          *)
(***************************************************************************)
C6_RoundTrip ==
    reimported # <<>> =>
        /\ reimported[1].clean
        /\ Values(reimported[1].devices) = Values(devices[1])

(***************************************************************************)
(* Home.handleFileUpload.  A file is its name and what decoding it gives:  *)
(* the rows, or an error.                                                  *)
(***************************************************************************)
File(name, ok, rows) == [name |-> name, ok |-> ok, rows |-> rows]

DotCsv == <<".", "c", "s", "v">>

FilePool ==
    { File(<<"a">> \o DotCsv, TRUE,
           <<Row(A1, L1, N1, S1, <<"2">>, <<"5", "K", "W">>, <<>>)>>),
      File(<<"b", ".", "C", "S", "V">>, TRUE,
           <<Row(B2, <<>>, <<>>, <<>>, <<>>, <<>>, <<>>),
             Row(<<>>, <<>>, N2, <<>>, <<"1">>, <<"a", "b">>, <<>>)>>),
      File(<<"c">> \o DotCsv, FALSE, <<>>),
      File(<<"d">> \o DotCsv, TRUE,
           <<Row(<<>>, <<>>, N2, <<>>, <<"1">>, <<>>, <<>>)>>),
      File(<<"e">> \o DotCsv, TRUE,
           <<Row(A1, <<>>, HeaderText["name"], <<>>, <<>>, <<>>, <<>>)>>),
      File(<<"f", ".", "t", "x", "t">>, TRUE,
           <<Row(A1, L1, N1, <<>>, <<>>, <<>>, <<>>)>>) }

\* file.name.toLowerCase().endsWith('.csv')
IsCsvName(name) ==
    /\ Len(name) >= Len(DotCsv)
    /\ SubSeq(ToLowerCase(name), Len(name) - Len(DotCsv) + 1, Len(name)) = DotCsv

\* JSON.stringify(devices): the fields of the Device and Component
\* interfaces; the history fields of the model are no part of them.
StoredComponent(c) ==
    [id |-> c.id, name |-> c.name, spec |-> c.spec,
     quantityText |-> c.quantityText, powerText |-> c.powerText,
     remark |-> c.remark]

StoredDevice(d) ==
    [id |-> d.id, deviceCode |-> d.deviceCode, workLocation |-> d.workLocation,
     components |->
        [n \in 1..Len(d.components) |-> StoredComponent(d.components[n])]]

Stringify(ds) == [k \in 1..Len(ds) |-> StoredDevice(ds[k])]

UploadOutcomeNoEmptyCheck(file) ==
    IF ~file.ok THEN "decodeError"
    ELSE IF ~ValidateData(Present(file.rows)).isValid THEN "invalid"
    ELSE "stored"

\* the path the body of try takes once parseFile has settled
UploadOutcome(file) ==
    IF ~file.ok THEN "decodeError"
    ELSE IF ~ValidateData(Present(file.rows)).isValid THEN "invalid"
    ELSE IF Len(ProcessInheritance(file.rows)) = 0 THEN "empty"
    ELSE "stored"

\* the argument of setError on each failing path
ErrorMessage(outcome, file) ==
    [kind   |-> outcome,
     errors |-> IF outcome = "invalid"
                THEN ValidateData(Present(file.rows)).errors ELSE <<>>]

NewStoreMerging(old, file, time) ==
    [deviceData |-> <<(IF old.deviceData = <<>> THEN <<>> ELSE old.deviceData[1])
                       \o Stringify(ProcessInheritance(file.rows))>>,
     uploadTime |-> <<time>>,
     fileName   |-> <<file.name>>]

\* the three localStorage.setItem calls
NewStore(old, file, time) ==
    [deviceData |-> <<Stringify(ProcessInheritance(file.rows))>>,
     uploadTime |-> <<time>>,
     fileName   |-> <<file.name>>]

Task(file, pc, outcome, at) ==
    [file |-> file, pc |-> pc, outcome |-> outcome, settledAt |-> at]

InitUpload ==
    /\ tasks = <<>>
    /\ store = NoStore
    /\ loading = FALSE
    /\ error = <<>>
    /\ now = 0
    /\ ParseIdle /\ NoiseIdle /\ RoundTripIdle /\ AnalyzeIdle /\ PagesIdle

\* handleFileUpload(file) up to  await csvParser.parseFile(file)
StartUpload ==
    /\ Len(tasks) < MaxUploads
    /\ \E file \in FilePool :
          IF ~IsCsvName(file.name)
          THEN /\ error' = <<ErrorMessage("notCsv", file)>>
               /\ tasks' = Append(tasks, Task(file, "done", "notCsv", now))
               /\ UNCHANGED loading
          ELSE /\ loading' = TRUE
               /\ error' = <<>>
               /\ tasks' = Append(tasks, Task(file, "awaiting", "none", 0))
    /\ UNCHANGED <<store, now, parseVars, noiseVars, roundTripVars,
                   analyzeVars, pageVars>>

\* handleFileUpload from the settling of parseFile to its end
SettleUpload ==
    /\ \E u \in 1..Len(tasks) :
          /\ tasks[u].pc = "awaiting"
          /\ LET file    == tasks[u].file
                 outcome == UploadOutcome(file)
             IN  /\ tasks' = [tasks EXCEPT ![u] = Task(file, "done", outcome, now)]
                 /\ IF outcome = "stored"
                    THEN /\ store' = NewStore(store, file, now)
                         /\ UNCHANGED error
                    ELSE /\ error' = <<ErrorMessage(outcome, file)>>
                         /\ UNCHANGED store
                 /\ loading' = FALSE
    /\ UNCHANGED <<now, parseVars, noiseVars, roundTripVars,
                   analyzeVars, pageVars>>

\* time passes
Tick ==
    /\ now < MaxClock
    /\ now' = now + 1
    /\ UNCHANGED <<tasks, store, loading, error, parseVars,
                   noiseVars, roundTripVars, analyzeVars, pageVars>>

NextUpload == StartUpload \/ SettleUpload \/ Tick

SpecUpload == InitUpload /\ [][NextUpload]_vars

\* the upload of this file gets as far as the store
Succeeds(file) ==
    /\ IsCsvName(file.name)
    /\ file.ok
    /\ ValidateData(Present(file.rows)).isValid
    /\ Len(ProcessInheritance(file.rows)) >= 1

Settles(u) == u <= Len(tasks) /\ tasks[u].pc = "awaiting" /\ tasks'[u].pc = "done"

(***************************************************************************)
(* C7: the store is written only by an upload whose decoding succeeded,    *)
(* whose validation returned isValid = true and whose reconstruction       *)
(* returned at least one device; an upload that ends in a decode error, a  *)
(* validation error or an empty reconstruction leaves the three stored     *)
(* values as they were and sets an error message.                          *)
(***************************************************************************)
C7_StoreOnlyOnSuccess ==
    [][/\ store' # store =>
            \E u \in 1..MaxUploads : Settles(u) /\ Succeeds(tasks[u].file)
       /\ \A u \in 1..MaxUploads :
            (Settles(u) /\ ~Succeeds(tasks[u].file)) =>
                (store' = store /\ error' # <<>>)]_vars

\* an upload has failed on an empty reconstruction after another had
\* written the store, which still holds that other upload's values
C7_Witness ==
    \E u, v \in 1..Len(tasks) :
        /\ tasks[v].outcome = "stored"
        /\ tasks[u].outcome = "empty"
        /\ tasks[u].settledAt > tasks[v].settledAt
        /\ store.fileName = <<tasks[v].file.name>>
        /\ error # <<>>

MaxShortRows == 1

\* a row with every column filled, each cell padded or plain
FullRow ==
    Row(<<" ">> \o A1, <<" ">> \o L1 \o <<" ">>, N1 \o <<" ">>, S1, <<"2">>,
        <<"5", "K", "W">>, <<"r">>)

\* the row object that has only the columns of K
Restrict(row, K) == [c \in K |-> row[c]]

ShortRows == {Restrict(FullRow, K) : K \in SUBSET Cols}

Prefixes == {<<>>, <<Row(B2, L1, N2, <<>>, <<"1">>, <<>>, <<>>)>>}

InitShortRows ==
    /\ input \in {Present(p \o rows) :
                    p \in Prefixes, rows \in SeqsUpTo(ShortRows, MaxShortRows)}
    /\ validation = <<>>
    /\ devices = <<>>
    /\ NoiseIdle /\ RoundTripIdle /\ UploadIdle /\ AnalyzeIdle /\ PagesIdle

NextShortRows == Validate \/ Reconstruct

SpecShortRows == InitShortRows /\ [][NextShortRows]_vars

\* positions of the rows validateData counts as devices
CountedDeviceRows(rows) ==
    {i \in 1..Len(rows) :
        /\ ~BlankCell(rows[i], "deviceCode")
        /\ rows[i]["deviceCode"] # HeaderText["deviceCode"]}

\* the required columns the first row lacks
LackedByFirstRow(rows) == Cols \ DOMAIN rows[1]

Validated == validation # <<>>

(***************************************************************************)
(* C11: for a non-empty row sequence with at least one device row, when    *)
(* the first row lacks a non-empty set M of the seven required columns,    *)
(* validateData returns isValid = FALSE and exactly one error, which names *)
(* every column of M once and no other column.  M comes from the first row *)
(* only: when the first row has all seven columns no missing-column error  *)
(* is reported, whatever the later rows lack.                              *)
(***************************************************************************)
C11_MissingColumnsFromFirstRow ==
    (Validated /\ input.present /\ input.rows # <<>>) =>
        LET rows == input.rows
            M    == LackedByFirstRow(rows)
            errs == validation[1].errors
        IN  /\ (M # {} /\ CountedDeviceRows(rows) # {}) =>
                /\ ~validation[1].isValid
                /\ Len(errs) = 1
                /\ errs[1].kind = "missingColumns"
                /\ {errs[1].columns[j] : j \in 1..Len(errs[1].columns)} = M
                /\ Len(errs[1].columns) = Cardinality(M)
            /\ M = {} =>
                \A e \in 1..Len(errs) : errs[e].kind # "missingColumns"

\* the first row lacks only the remark column and opens a device
C11_Witness ==
    /\ Validated
    /\ input.present /\ input.rows # <<>>
    /\ LackedByFirstRow(input.rows) = {"remark"}
    /\ 1 \in CountedDeviceRows(input.rows)
    /\ validation[1].errors = <<MissingColumnsError(<<"remark">>)>>

\* the rows with every missing cell replaced by the empty text
Filled(rows) ==
    [i \in 1..Len(rows) |->
        [c \in Cols |-> IF c \in DOMAIN rows[i] THEN rows[i][c] ELSE <<>>]]

\* a TypeError was raised while the list was built
Threw(ds) ==
    \E k \in 1..Len(ds) :
        \/ Thrown \in {ds[k].deviceCode, ds[k].workLocation}
        \/ \E n \in 1..Len(ds[k].components) :
              LET c == ds[k].components[n]
              IN  Thrown \in {c.name, c.spec, c.quantityText, c.powerText,
                              c.remark}

(***************************************************************************)
(* C13: processInheritance is total on unvalidated input: for rows that    *)
(* lack any subset of the seven columns it returns a Device list without   *)
(* raising, and the list is the one it returns for the same rows with      *)
(* every missing cell replaced by the empty text.                          *)
(***************************************************************************)
C13_TotalOnShortRows ==
    Reconstructed =>
        /\ ~Threw(devices[1])
        /\ devices[1] = ProcessInheritance(Filled(input.rows))

\* a single row that has only the device-identifier and component-name columns
C13_Witness ==
    /\ Reconstructed
    /\ Len(input.rows) = 1
    /\ DOMAIN input.rows[1] = {"deviceCode", "name"}
    /\ Len(devices[1]) = 1
    /\ devices[1][1].workLocation = <<>>
    /\ Len(devices[1][1].components) = 1
    /\ devices[1][1].components[1].powerText = <<>>

(***************************************************************************)
(* C12, as stated: validateData reports the no-device error exactly when   *)
(* no row of the file has a non-blank device-identifier cell (rows whose   *)
(* device cell is the header literal are not counted), and then isValid is *)
(* FALSE.  For an absent or empty row sequence no row has such a cell, yet *)
(* the empty-input check returns before the no-device error is added.      *)
(***************************************************************************)
C12_NoDevicesErrorAnyInput ==
    Validated =>
        LET errs     == validation[1].errors
            reported == \E e \in 1..Len(errs) : errs[e] = NoDevicesError
        IN  /\ reported <=> CountedDeviceRows(input.rows) = {}
            /\ CountedDeviceRows(input.rows) = {} => ~validation[1].isValid

(***************************************************************************)
(* C12, amended: for a non-empty row sequence validateData reports the     *)
(* no-device error exactly when no row of the file has a non-blank         *)
(* device-identifier cell (rows whose device cell is the header literal    *)
(* are not counted), and then isValid is FALSE.                            *)
(***************************************************************************)
C12_NoDevicesError ==
    (Validated /\ input.present /\ input.rows # <<>>) =>
        LET errs     == validation[1].errors
            reported == \E e \in 1..Len(errs) : errs[e] = NoDevicesError
        IN  /\ reported <=> CountedDeviceRows(input.rows) = {}
            /\ CountedDeviceRows(input.rows) = {} => ~validation[1].isValid

\* a header row followed by a component row without a device identifier
C12_Witness ==
    /\ Validated
    /\ input.present /\ Len(input.rows) = 2
    /\ input.rows[1] = HeaderText
    /\ ~BlankCell(input.rows[2], "name")
    /\ CountedDeviceRows(input.rows) = {}
    /\ validation[1].errors = <<NoDevicesError>>
    /\ ~validation[1].isValid

RECURSIVE AllComponents(_)
\* the components of the devices, in the order of the lists
AllComponents(ds) ==
    IF ds = <<>> THEN <<>>
    ELSE Head(ds).components \o AllComponents(Tail(ds))

(***************************************************************************)
(* C14: in the list one call of processInheritance returns, the k-th       *)
(* Device has id device-k and the j-th Component, counted through all the  *)
(* devices, has id component-j; so the ids of a call are fixed by its rows *)
(* (the counters start at 1 in every call), Device ids are pairwise        *)
(* distinct even when two devices carry the same deviceCode, and Component *)
(* ids are pairwise distinct across devices and increase in row order.     *)
(***************************************************************************)
C14_IdsPerCall ==
    Reconstructed =>
        LET D == devices[1]
            C == AllComponents(D)
        IN  /\ \A k \in 1..Len(D) : D[k].id = <<"device", k>>
            /\ \A j \in 1..Len(C) : C[j].id = <<"component", j>>
            /\ \A k, l \in 1..Len(D) : k # l => D[k].id # D[l].id
            /\ \A i, j \in 1..Len(C) :
                 /\ i # j => C[i].id # C[j].id
                 /\ C[i].srcRow < C[j].srcRow => C[i].id[2] < C[j].id[2]

\* two devices with the same deviceCode, each with a component
C14_Witness ==
    /\ Reconstructed
    /\ Len(devices[1]) = 2
    /\ devices[1][1].deviceCode = devices[1][2].deviceCode
    /\ devices[1][1].id = <<"device", 1>>
    /\ devices[1][2].id = <<"device", 2>>
    /\ Len(devices[1][1].components) = 1
    /\ Len(devices[1][2].components) = 1
    /\ devices[1][2].components[1].id = <<"component", 2>>

(***************************************************************************)
(* Numbers.  A number the analyzer computes is a decimal: mant / 10^exp,   *)
(* with no trailing zero in the fraction, or NaN.  Sums are exact; the     *)
(* rounding of IEEE doubles is not modelled.                               *)
(***************************************************************************)
NaN == [nan |-> TRUE, mant |-> 0, exp |-> 0]

RECURSIVE Decimal(_, _)
\* mant / 10^exp in lowest terms
Decimal(mant, exp) ==
    IF exp > 0 /\ mant % 10 = 0
    THEN Decimal(mant \div 10, exp - 1)
    ELSE [nan |-> FALSE, mant |-> mant, exp |-> exp]

Zero == Decimal(0, 0)

RECURSIVE Pow10(_)
Pow10(n) == IF n = 0 THEN 1 ELSE 10 * Pow10(n - 1)

\* a + b
Add(a, b) ==
    IF a.nan \/ b.nan THEN NaN
    ELSE LET e == IF a.exp > b.exp THEN a.exp ELSE b.exp
         IN  Decimal(a.mant * Pow10(e - a.exp) + b.mant * Pow10(e - b.exp), e)

DigitOrder == <<"0", "1", "2", "3", "4", "5", "6", "7", "8", "9">>

DigitValue(c) == (CHOOSE i \in 1..Len(DigitOrder) : DigitOrder[i] = c) - 1

RECURSIVE ToInt(_)
\* the value of a run of digits (0 for the empty run)
ToInt(ds) ==
    IF ds = <<>> THEN 0
    ELSE 10 * ToInt(SubSeq(ds, 1, Len(ds) - 1)) + DigitValue(ds[Len(ds)])

\* the length of the longest run of digits s starts with
LeadingDigits(s) ==
    CHOOSE n \in 0..Len(s) :
        /\ \A i \in 1..n : s[i] \in Digits
        /\ n = Len(s) \/ s[n + 1] \notin Digits

\* parseFloat: leading whitespace is skipped, then the longest prefix of the
\* form  [+-] digits [. digits]  with at least one digit is read; NaN when
\* there is none.  (Exponents and Infinity are not used by the texts of the
\* model.)
ParseFloat(s) ==
    LET t        == TrimStart(s)
        signed   == t # <<>> /\ t[1] \in {"+", "-"}
        u        == IF signed THEN Tail(t) ELSE t
        intLen   == LeadingDigits(u)
        rest     == SubSeq(u, intLen + 1, Len(u))
        fracLen  == IF rest # <<>> /\ rest[1] = "."
                    THEN LeadingDigits(Tail(rest)) ELSE 0
        digits   == SubSeq(u, 1, intLen) \o SubSeq(rest, 2, fracLen + 1)
        value    == ToInt(digits)
    IN  IF intLen + fracLen = 0 THEN NaN
        ELSE Decimal(IF signed /\ t[1] = "-" THEN 0 - value ELSE value, fracLen)

(***************************************************************************)
(* generateStatistics.                                                     *)
(***************************************************************************)
\* the characters the class [kw|KW qian wa] matches under the flags gi
UnitChars == {"k", "w", "|", "K", "W", "qian", "wa"}

IsUnitChar(c) == \E u \in UnitChars : LowerChar(c) = LowerChar(u)

\* powerStr.replace(/[kw|KW qian wa]/gi, '')
RemoveUnitChars(s) ==
    LET Kept(c) == ~IsUnitChar(c)
    IN  SelectSeq(s, Kept)

\* extractPowerValue
ExtractPowerValue(powerStr) ==
    IF ~Truthy(powerStr) \/ Trim(powerStr) = <<>> THEN Zero
    ELSE LET cleanStr == Trim(RemoveUnitChars(powerStr))
             value    == ParseFloat(cleanStr)
         IN  IF value.nan THEN Zero ELSE value

\* component.powerText.replace(/[^\d.]/g, '')
KeepDigitsAndDots(s) ==
    LET Kept(c) == c \in Digits \cup {"."}
    IN  SelectSeq(s, Kept)

\* DeviceDetail: parseFloat(component.powerText.replace(/[^\d.]/g, '')) || 0
ReferencePower(text) ==
    LET value == ParseFloat(KeepDigitsAndDots(text))
    IN  IF value.nan THEN Zero ELSE value

\* the label of the entities without a key
Fallback == <<"wei4", "fen1", "lei4">>

StatKeyFolded(text) ==
    IF Truthy(text) THEN ToLowerCase(Trim(text)) ELSE Fallback

\* device.workLocation || fallback,  component.name || fallback
StatKey(text) == IF Truthy(text) THEN text ELSE Fallback

BumpOverwrite(table, key) ==
    [k \in DOMAIN table \cup {key} |-> IF k = key THEN 1 ELSE table[k]]

\* table[key] = (table[key] || 0) + 1
Bump(table, key) ==
    IF key \in DOMAIN table
    THEN [table EXCEPT ![key] = @ + 1]
    ELSE table @@ (key :> 1)

RECURSIVE Tally(_, _)
\* the forEach loops that fill a Record<string, number>
Tally(table, keys) ==
    IF keys = <<>> THEN table
    ELSE Tally(Bump(table, StatKey(Head(keys))), Tail(keys))

\* {} : the table without entries
EmptyTable == [k \in {} |-> 0]

ComponentTotalOfFirst(ds) ==
    IF ds = <<>> THEN 0 ELSE Len(Head(ds).components)

RECURSIVE ComponentTotal(_)
\* devices.reduce((total, device) => total + device.components.length, 0)
ComponentTotal(ds) ==
    IF ds = <<>> THEN 0
    ELSE Len(Head(ds).components) + ComponentTotal(Tail(ds))

RECURSIVE SumPowers(_)
SumPowers(ps) ==
    IF ps = <<>> THEN Zero
    ELSE Add(SumPowers(SubSeq(ps, 1, Len(ps) - 1)), ps[Len(ps)])

\* generateStatistics (powers is history: the value extractPowerValue
\* returned for each component, in the order of the loops)
GenerateStatistics(ds) ==
    LET cs     == AllComponents(ds)
        powers == [j \in 1..Len(cs) |-> ExtractPowerValue(cs[j].powerText)]
    IN  [deviceTotal    |-> Len(ds),
         componentTotal |-> ComponentTotal(ds),
         powerTotal     |-> SumPowers(powers),
         deviceTable    |-> Tally(EmptyTable,
                                  [k \in 1..Len(ds) |-> ds[k].workLocation]),
         componentTable |-> Tally(EmptyTable,
                                  [j \in 1..Len(cs) |-> cs[j].name]),
         powers         |-> powers]

(***************************************************************************)
(* searchDevices and filterDevices.                                        *)
(***************************************************************************)
\* String.prototype.includes
Includes(s, t) ==
    \E i \in 0..(Len(s) - Len(t)) : SubSeq(s, i + 1, i + Len(t)) = t

\* text.toLowerCase().includes(term), term already in lower case
Matches(text, term) == Includes(ToLowerCase(text), term)

SearchedFieldsNoRemark(c) == {c.name, c.spec, c.quantityText, c.powerText}

\* the component fields searchDevices looks into
SearchedFields(c) == {c.name, c.spec, c.quantityText, c.powerText, c.remark}

\* the callback of devices.filter in searchDevices
SearchHit(d, term) ==
    \/ Matches(d.deviceCode, term)
    \/ Matches(d.workLocation, term)
    \/ \E n \in 1..Len(d.components) :
          \E text \in SearchedFields(d.components[n]) : Matches(text, term)

SearchDevices(ds, searchTerm) ==
    IF ~Truthy(searchTerm) \/ Trim(searchTerm) = <<>> THEN ds
    ELSE LET term   == Trim(ToLowerCase(searchTerm))
             Hit(d) == SearchHit(d, term)
         IN  SelectSeq(ds, Hit)

\* FilterOptions: every criterion is optional
Criteria(deviceCode, workLocation, name, spec) ==
    [deviceCode |-> deviceCode, workLocation |-> workLocation,
     name |-> name, spec |-> spec]

RejectsCaseSensitive(criterion, texts) ==
    /\ Truthy(criterion)
    /\ \A text \in texts : ~Includes(text, criterion)

\* filters.x && no text of texts has filters.x in it, letter case ignored
Rejects(criterion, texts) ==
    /\ Truthy(criterion)
    /\ \A text \in texts : ~Matches(text, ToLowerCase(criterion))

\* the callback of devices.filter in filterDevices
Passes(d, filters) ==
    LET cs == d.components
    IN  /\ ~Rejects(filters.deviceCode, {d.deviceCode})
        /\ ~Rejects(filters.workLocation, {d.workLocation})
        /\ ~Rejects(filters.name, {cs[n].name : n \in 1..Len(cs)})
        /\ ~Rejects(filters.spec, {cs[n].spec : n \in 1..Len(cs)})

FilterDevicesFirstOnly(ds, filters) ==
    LET Kept(d) == Passes(d, filters)
        kept    == SelectSeq(ds, Kept)
    IN  IF kept = <<>> THEN <<>> ELSE <<kept[1]>>

FilterDevices(ds, filters) ==
    LET Kept(d) == Passes(d, filters)
    IN  SelectSeq(ds, Kept)

(***************************************************************************)
(* sortDevices: lodash orderBy(devices, [field], [direction]), a stable    *)
(* sort on the value of one property, strings compared by code unit.       *)
(***************************************************************************)
\* the characters of the model in the order of their UTF-16 code units
CodeOrder ==
    <<"\t", " ", "\"", "*", "+", ",", "-", ".",
      "0", "1", "2", "3", "4", "5", "6", "7", "8", "9",
      "A", "B", "C", "D", "E", "F", "G", "H", "I", "J", "K", "L", "M",
      "N", "O", "P", "Q", "R", "S", "T", "U", "V", "W", "X", "Y", "Z",
      "[object Object]",
      "a", "b", "c", "d", "e", "f", "g", "h", "i", "j", "k", "l", "m",
      "n", "o", "p", "q", "r", "s", "t", "u", "v", "w", "x", "y", "z",
      "|", "fen1", "qian", "wei4", "wa", "lei4", "yue1">>

CodeUnit(c) == CHOOSE i \in 1..Len(CodeOrder) : CodeOrder[i] = c

\* a < b for two strings
TextLess(a, b) ==
    \E i \in 1..(Len(a) + 1) :
        /\ i <= Len(b)
        /\ SubSeq(a, 1, i - 1) = SubSeq(b, 1, i - 1)
        /\ i = Len(a) + 1 \/ CodeUnit(a[i]) < CodeUnit(b[i])

RECURSIVE DecimalText(_)
\* String(n) for a natural number
DecimalText(n) ==
    IF n < 10 THEN <<DigitOrder[n + 1]>>
    ELSE Append(DecimalText(n \div 10), DigitOrder[(n % 10) + 1])

\* the id string: device-1, component-2
IdText(id) ==
    (IF id[1] = "device" THEN <<"d", "e", "v", "i", "c", "e", "-">>
     ELSE <<"c", "o", "m", "p", "o", "n", "e", "n", "t", "-">>)
    \o DecimalText(id[2])

RECURSIVE ObjectListText(_)
\* String(array of n objects), what > and < compare arrays by
ObjectListText(n) ==
    IF n = 0 THEN <<>>
    ELSE IF n = 1 THEN <<"[object Object]">>
    ELSE ObjectListText(n - 1) \o <<",", "[object Object]">>

DeviceFields == {"id", "deviceCode", "workLocation", "components"}

\* device[field]: undefined for a property a Device does not have
SortKey(d, field) ==
    CASE field = "id"           -> IdText(d.id)
      [] field = "deviceCode"   -> d.deviceCode
      [] field = "workLocation" -> d.workLocation
      [] field = "components"   -> ObjectListText(Len(d.components))
      [] OTHER                  -> Undefined

\* lodash compareAscending on strings and undefined (undefined goes last)
CompareAscending(a, b) ==
    IF a = b THEN 0
    ELSE IF a = Undefined THEN 1
    ELSE IF b = Undefined THEN 0 - 1
    ELSE IF TextLess(a, b) THEN 0 - 1
    ELSE 1

CompareMultipleAscendingOnly(a, b, direction) == CompareAscending(a, b)

\* lodash compareMultiple with one criterion
CompareMultiple(a, b, direction) ==
    IF direction = "desc" THEN 0 - CompareAscending(a, b)
    ELSE CompareAscending(a, b)

OrderByTiesReversed(ds, field, direction) ==
    LET Before(i, j) ==
            LET c == CompareMultiple(SortKey(ds[i], field),
                                     SortKey(ds[j], field), direction)
            IN  c < 0 \/ (c = 0 /\ i > j)
        Place(i) == Cardinality({j \in 1..Len(ds) : Before(j, i)}) + 1
    IN  [r \in 1..Len(ds) |-> ds[CHOOSE i \in 1..Len(ds) : Place(i) = r]]

\* lodash baseSortBy: ties keep the order of the input
OrderBy(ds, field, direction) ==
    LET Before(i, j) ==
            LET c == CompareMultiple(SortKey(ds[i], field),
                                     SortKey(ds[j], field), direction)
            IN  c < 0 \/ (c = 0 /\ i < j)
        Place(i) == Cardinality({j \in 1..Len(ds) : Before(j, i)}) + 1
    IN  [r \in 1..Len(ds) |-> ds[CHOOSE i \in 1..Len(ds) : Place(i) = r]]

SortDevices(ds, sortOptions) ==
    OrderBy(ds, sortOptions.field, sortOptions.direction)

(***************************************************************************)
(* paginateDevices.                                                        *)
(***************************************************************************)
\* an index argument of Array.prototype.slice, brought into 0..len: a
\* negative index counts from the end of the array
SliceIndex(len, i) ==
    IF i < 0 THEN (IF len + i < 0 THEN 0 ELSE len + i)
    ELSE (IF i > len THEN len ELSE i)

\* array.slice(start, end)
Slice(s, start, end) ==
    SubSeq(s, SliceIndex(Len(s), start) + 1, SliceIndex(Len(s), end))

\* Math.ceil(total / pageSize), for total >= 0 and pageSize >= 1
CeilDiv(total, pageSize) == (total + pageSize - 1) \div pageSize

StartIndexZeroBased(page, pageSize) == page * pageSize

\* const startIndex = (page - 1) * pageSize
StartIndex(page, pageSize) == (page - 1) * pageSize

PaginateDevices(ds, page, pageSize) ==
    LET startIndex == StartIndex(page, pageSize)
        endIndex   == startIndex + pageSize
    IN  [data       |-> Slice(ds, startIndex, endIndex),
         total      |-> Len(ds),
         totalPages |-> CeilDiv(Len(ds), pageSize)]

(***************************************************************************)
(* SpecAnalyze: one analyzer call on a Device list.  The list is what the  *)
(* Analysis page reads back from the store: the devices processInheritance *)
(* built from some rows.                                                   *)
(***************************************************************************)
MaxQueryRows == 3

HC001 == <<"H", "C", "-", "0", "0", "1">>

XY002 == <<"X", "Y", "-", "0", "0", "2">>

QueryRows ==
    { Row(HC001, L1, N1, S1, <<"2">>, <<"5", "K", "W">>, <<>>),
      Row(XY002, <<"L", "A">>, <<"n", "1">>, <<"s", "1">>, <<"1">>,
          <<"2", "*", "5", ".", "5", "K", "W">>, <<>>),
      Row(<<>>, <<>>, <<"N", " ", "1">>, <<>>, <<>>,
          <<"yue1", "5", "K", "W">>, <<"H", "c">>),
      Row(A1, <<>>, <<>>, <<>>, <<>>, <<>>, <<>>),
      Row(B2, <<"L", " ", "a">>, N1, <<>>, <<"2">>,
          <<"0", ".", "5", "k", "w">>, <<>>) }

SearchTerms ==
    { <<>>, <<" ">>, <<"h", "c">>, <<"H", "C", "-", "0">>, <<"n", "1", " ">>,
      <<" ", "L", "A">>, <<"5">>, <<"z">> }

CriteriaPool ==
    { Criteria(c, l, n, sp) :
        c  \in {Undefined, <<>>, <<"H", "C", "-", "0">>, <<"x", "y">>},
        l  \in {Undefined, <<"l", "a">>, <<" ">>},
        n  \in {Undefined, <<>>, <<"n", "1">>},
        sp \in {Undefined, <<"S">>} }

SortPool ==
    [field     : DeviceFields \cup {"name", "powerText"},
     direction : {"asc", "desc"}]

\* the terms and criteria of the calls that compose search and filter
ComposedTerms == {<<"h", "c">>, <<"n", "1", " ">>, <<" ", "L", "A">>, <<"z">>}

ComposedCriteria ==
    {f \in CriteriaPool : \A k \in DOMAIN f : f[k] \notin {<<>>, <<" ">>}}

MaxPage == 4

MaxPageSize == 2

\* page numbers in and out of range, page sizes from 1
PagePool == [page : (1 - MaxPage)..MaxPage, pageSize : 1..MaxPageSize]

InitAnalyze ==
    /\ deviceData \in {Stringify(ProcessInheritance(rows)) :
                          rows \in SeqsUpTo(QueryRows, MaxQueryRows)}
    /\ query = NoQuery
    /\ result = <<>>
    /\ ParseIdle /\ NoiseIdle /\ RoundTripIdle /\ UploadIdle /\ PagesIdle

otherVars == <<parseVars, noiseVars, roundTripVars, uploadVars, pageVars>>

Statistics ==
    /\ result = <<>>
    /\ query' = [op |-> "statistics"]
    /\ result' = <<GenerateStatistics(deviceData)>>
    /\ UNCHANGED <<deviceData, otherVars>>

Search ==
    /\ result = <<>>
    /\ \E term \in SearchTerms :
          /\ query' = [op |-> "search", term |-> term]
          /\ result' = <<SearchDevices(deviceData, term)>>
    /\ UNCHANGED <<deviceData, otherVars>>

Filter ==
    /\ result = <<>>
    /\ \E filters \in CriteriaPool :
          /\ query' = [op |-> "filter", filters |-> filters]
          /\ result' = <<FilterDevices(deviceData, filters)>>
    /\ UNCHANGED <<deviceData, otherVars>>

Sort ==
    /\ result = <<>>
    /\ \E sortOptions \in SortPool :
          /\ query' = [op |-> "sort", sortOptions |-> sortOptions]
          /\ result' = <<SortDevices(deviceData, sortOptions)>>
    /\ UNCHANGED <<deviceData, otherVars>>

Paginate ==
    /\ result = <<>>
    /\ \E p \in PagePool :
          /\ query' = [op |-> "paginate", page |-> p.page,
                        pageSize |-> p.pageSize]
          /\ result' = <<PaginateDevices(deviceData, p.page, p.pageSize)>>
    /\ UNCHANGED <<deviceData, otherVars>>

\* search and filter applied one after the other, in either order
SearchAndFilter ==
    /\ result = <<>>
    /\ \E term \in ComposedTerms : \E filters \in ComposedCriteria :
          /\ query' = [op |-> "searchAndFilter", term |-> term,
                        filters |-> filters]
          /\ result' =
                <<[searchFirst |->
                       FilterDevices(SearchDevices(deviceData, term), filters),
                   filterFirst |->
                       SearchDevices(FilterDevices(deviceData, filters), term)]>>
    /\ UNCHANGED <<deviceData, otherVars>>

NextAnalyze ==
    Statistics \/ Search \/ Filter \/ Sort \/ Paginate \/ SearchAndFilter

SpecAnalyze == InitAnalyze /\ [][NextAnalyze]_vars

\* the call op was made and has returned
Returned(op) == query.op = op /\ result # <<>>

(***************************************************************************)
(* C15: in the statistics generateStatistics returns, the total device     *)
(* count is the length of the Device list and the total component count is *)
(* the sum of the lengths of the devices' component lists.                 *)
(***************************************************************************)
C15_Totals ==
    Returned("statistics") =>
        /\ result[1].deviceTotal = Len(deviceData)
        /\ result[1].componentTotal = SumLen(deviceData)
        /\ result[1].componentTotal = Len(AllComponents(deviceData))

\* two devices, the first with two components and the second with none
C15_Witness ==
    /\ Returned("statistics")
    /\ Len(deviceData) = 2
    /\ Len(deviceData[1].components) = 2
    /\ Len(deviceData[2].components) = 0
    /\ result[1].deviceTotal = 2
    /\ result[1].componentTotal = 2

(***************************************************************************)
(* C16: extractPowerValue returns, for every power text, the value of the  *)
(* reference rule: remove every character that is not a digit or a         *)
(* decimal point, parse what is left as a decimal number, zero when        *)
(* nothing parsable is left.                                               *)
(***************************************************************************)
C16_PowerAsReferenceRule ==
    Returned("statistics") =>
        LET cs == AllComponents(deviceData)
        IN  \A j \in 1..Len(cs) :
                result[1].powers[j] = ReferencePower(cs[j].powerText)

\* the key of an entity as the tables use it: the text itself, the fallback
\* label for the empty text
VerbatimKey(text) == IF text = <<>> THEN Fallback ELSE text

\* the table that counts the texts under their verbatim keys
VerbatimTable(texts) ==
    [key \in {VerbatimKey(texts[i]) : i \in 1..Len(texts)} |->
        Cardinality({i \in 1..Len(texts) : VerbatimKey(texts[i]) = key})]

CaseInsensitiveSubstring(t, s) == Includes(ToLowerCase(s), ToLowerCase(t))

\* t occurs in the device code, the work location or one of the five text
\* fields of at least one component
OccursIn(t, d) ==
    \/ CaseInsensitiveSubstring(t, d.deviceCode)
    \/ CaseInsensitiveSubstring(t, d.workLocation)
    \/ \E n \in 1..Len(d.components) :
          \E f \in {"name", "spec", "quantityText", "powerText", "remark"} :
              CaseInsensitiveSubstring(t, d.components[n][f])

\* the text is empty or whitespace only
Blank(text) == \A i \in 1..Len(text) : text[i] \in Whitespace

(***************************************************************************)
(* C18, as stated: with a non-blank term searchDevices returns exactly the *)
(* devices, in input order, in which the term occurs case-insensitively    *)
(* (device code, work location, or one of the five fields of a component); *)
(* with an empty or whitespace-only term it returns the input unchanged.   *)
(* A term with whitespace around it is searched for without that           *)
(* whitespace, so devices are returned in which the term as typed does not *)
(* occur.                                                                  *)
(***************************************************************************)
C18_SearchTermAsTyped ==
    Returned("search") =>
        LET Hit(d) == OccursIn(query.term, d)
        IN  result[1] = IF Blank(query.term) THEN deviceData
                        ELSE SelectSeq(deviceData, Hit)

(***************************************************************************)
(* C18, amended: with a non-blank term searchDevices returns exactly the   *)
(* devices, in input order, in which the term without its leading and      *)
(* trailing whitespace occurs case-insensitively (device code, work        *)
(* location, or one of the five fields of a component); with an empty or   *)
(* whitespace-only term it returns the input unchanged.                    *)
(***************************************************************************)
C18_SearchTrimmedTerm ==
    Returned("search") =>
        LET Hit(d) == OccursIn(Trim(query.term), d)
        IN  result[1] = IF Blank(query.term) THEN deviceData
                        ELSE SelectSeq(deviceData, Hit)

\* the term n1 followed by a space finds the two devices with a component
\* N1 or n1 and leaves out the device between them that has no component
C18_Witness ==
    /\ Returned("search")
    /\ query.term = <<"n", "1", " ">>
    /\ Len(deviceData) = 3
    /\ result[1] = <<deviceData[1], deviceData[3]>>
    /\ ~OccursIn(query.term, deviceData[1])

\* the criterion is given: neither absent nor empty
Provided(criterion) == criterion # Undefined /\ criterion # <<>>

\* the device satisfies every criterion that is given
Satisfies(d, filters) ==
    /\ Provided(filters.deviceCode) =>
          CaseInsensitiveSubstring(filters.deviceCode, d.deviceCode)
    /\ Provided(filters.workLocation) =>
          CaseInsensitiveSubstring(filters.workLocation, d.workLocation)
    /\ Provided(filters.name) =>
          \E n \in 1..Len(d.components) :
              CaseInsensitiveSubstring(filters.name, d.components[n].name)
    /\ Provided(filters.spec) =>
          \E n \in 1..Len(d.components) :
              CaseInsensitiveSubstring(filters.spec, d.components[n].spec)

(***************************************************************************)
(* C19: filterDevices returns exactly the devices, in input order, that    *)
(* satisfy every criterion given: deviceCode and workLocation by           *)
(* case-insensitive substring on the device, name and spec by              *)
(* case-insensitive substring on at least one component; absent and empty  *)
(* criteria constrain nothing.                                             *)
(***************************************************************************)
C19_FilterConjunction ==
    Returned("filter") =>
        LET Kept(d) == Satisfies(d, query.filters)
        IN  result[1] = SelectSeq(deviceData, Kept)

\* the criteria {deviceCode: HC-0} over the devices HC-001 and XY-002
C19_Witness ==
    /\ Returned("filter")
    /\ query.filters =
          Criteria(<<"H", "C", "-", "0">>, Undefined, Undefined, Undefined)
    /\ Len(deviceData) = 2
    /\ deviceData[1].deviceCode = HC001
    /\ deviceData[2].deviceCode = XY002
    /\ result[1] = <<deviceData[1]>>

PagesNeeded(total, pageSize) ==
    CHOOSE n \in 0..total :
        /\ n * pageSize >= total
        /\ \A m \in 0..(n - 1) : m * pageSize < total

\* the totals of the returned page are those of the list
CorrectTotals ==
    /\ result[1].total = Len(deviceData)
    /\ result[1].totalPages = PagesNeeded(Len(deviceData), query.pageSize)

(***************************************************************************)
(* C21: for pageSize >= 1 and a page in 1..totalPages, paginateDevices     *)
(* returns total = the length of the list, totalPages = the ceiling of     *)
(* total / pageSize, and as data the elements of the list at positions     *)
(* (page-1)*pageSize+1 .. min(page*pageSize, total), in order.             *)
(***************************************************************************)
C21_PageSlice ==
    (Returned("paginate") /\ query.page \in 1..result[1].totalPages) =>
        LET first == (query.page - 1) * query.pageSize + 1
            last  == IF query.page * query.pageSize < Len(deviceData)
                     THEN query.page * query.pageSize ELSE Len(deviceData)
        IN  /\ CorrectTotals
            /\ result[1].data = [i \in 1..(last - first + 1) |->
                                    deviceData[first + i - 1]]

\* the second, shorter page of three devices in pages of two
C21_Witness ==
    /\ Returned("paginate")
    /\ Len(deviceData) = 3
    /\ query.page = 2 /\ query.pageSize = 2
    /\ result[1].totalPages = 2
    /\ result[1].data = <<deviceData[3]>>

(***************************************************************************)
(* C22: paginateDevices called with a page number out of range (above      *)
(* totalPages, or below 1) returns an empty data slice together with the   *)
(* correct total and totalPages.                                           *)
(***************************************************************************)
C22_OutOfRangePageIsEmpty ==
    (Returned("paginate") /\ query.page \notin 1..result[1].totalPages) =>
        /\ CorrectTotals
        /\ result[1].data = <<>>

\* the fields of a Device that hold a string
TextFields == {"id", "deviceCode", "workLocation"}

\* R is D sorted on the field: a permutation of D, in the order of the
\* field's strings for the direction, devices with equal values in the order
\* they have in D (the k-th device of D has the id device-k)
SortedStably(D, sortOptions, R) ==
    LET key(d) == SortKey(d, sortOptions.field)
    IN  /\ Len(R) = Len(D)
        /\ {R[i] : i \in 1..Len(R)} = {D[k] : k \in 1..Len(D)}
        /\ \A i, j \in 1..Len(R) :
              i < j =>
                /\ sortOptions.field \in TextFields =>
                      IF sortOptions.direction = "desc"
                      THEN ~TextLess(key(R[i]), key(R[j]))
                      ELSE ~TextLess(key(R[j]), key(R[i]))
                /\ key(R[i]) = key(R[j]) => R[i].id[2] < R[j].id[2]

(***************************************************************************)
(* C23: a call of sortDevices leaves the input list as it was and returns  *)
(* a permutation of it that is ordered by the chosen field in the chosen   *)
(* direction, in which devices with equal values of the field keep their   *)
(* input order, in ascending and in descending direction alike.            *)
(***************************************************************************)
C23_StableSort ==
    [][(query.op = "none" /\ query'.op = "sort") =>
          /\ deviceData' = deviceData
          /\ SortedStably(deviceData, query'.sortOptions, result'[1])]_vars

\* a descending sort on the work location: the two devices at La, in their
\* input order, come before the device at LA that stood between them
C23_Witness ==
    /\ Returned("sort")
    /\ query.sortOptions = [field |-> "workLocation", direction |-> "desc"]
    /\ Len(deviceData) = 3
    /\ deviceData[1].workLocation = L1
    /\ deviceData[2].workLocation = <<"L", "A">>
    /\ deviceData[3].workLocation = L1
    /\ result[1] = <<deviceData[1], deviceData[3], deviceData[2]>>

\* a < b for two numbers
NumLess(a, b) == a.mant * Pow10(b.exp) < b.mant * Pow10(a.exp)

\* the number the reference rule reads from the one component of a device
OnlyNumber(d, field) == ReferencePower(d.components[1][field])

(***************************************************************************)
(* C24: when sortDevices sorts on a numeric-text field (quantity or        *)
(* power), the result is in the order of the numbers read from the texts   *)
(* by the digit-and-point rule, not of the raw strings: among the devices  *)
(* that have exactly one component, the numbers never decrease in          *)
(* ascending direction and never increase in descending direction.         *)
(***************************************************************************)
C24_NumericTextSort ==
    (Returned("sort")
        /\ query.sortOptions.field \in {"quantityText", "powerText"}) =>
        LET R     == result[1]
            f     == query.sortOptions.field
            ones  == {i \in 1..Len(R) : Len(R[i].components) = 1}
        IN  \A i, j \in ones :
                i < j =>
                    IF query.sortOptions.direction = "desc"
                    THEN ~NumLess(OnlyNumber(R[i], f), OnlyNumber(R[j], f))
                    ELSE ~NumLess(OnlyNumber(R[j], f), OnlyNumber(R[i], f))

(***************************************************************************)
(* SpecDetail: the device detail page is mounted on /device/:deviceId and  *)
(* its effect runs loadDeviceData on what the store holds.  The store is   *)
(* written by the upload only, so its deviceData is absent or the text of  *)
(* a non-empty Device list, and JSON.parse does not fail on it.            *)
(***************************************************************************)
\* 'No data found, please upload a CSV file first'
NoDataMessage ==
    <<"wei4", "zhao3", "dao4", "shu4", "ju4", ",", "qing3", "xian1",
      "shang4", "chuan2", "C", "S", "V", "wen2", "jian4">>

\* 'The given device was not found'
NotFoundMessage == <<"wei4", "zhao3", "dao4", "zhi3", "ding4", "she", "bei">>

\* the state of the page when it is mounted
Mounted(deviceId) ==
    [mounted |-> TRUE, deviceId |-> deviceId, device |-> <<>>,
     loading |-> TRUE, error |-> <<>>]

\* devices.find(d => d.id === deviceId): <<>> is undefined
Find(ds, deviceId) ==
    LET Hit(d) == d.id = deviceId
        hits   == SelectSeq(ds, Hit)
    IN  IF hits = <<>> THEN <<>> ELSE <<hits[1]>>

LoadDeviceDataOneMessage(st, saved) ==
    IF saved.deviceData = <<>>
    THEN [st EXCEPT !.error = <<NotFoundMessage>>, !.loading = FALSE]
    ELSE LET foundDevice == Find(saved.deviceData[1], st.deviceId)
         IN  IF foundDevice = <<>>
             THEN [st EXCEPT !.error = <<NotFoundMessage>>, !.loading = FALSE]
             ELSE [st EXCEPT !.device = foundDevice, !.loading = FALSE]

LoadDeviceData(st, saved) ==
    IF saved.deviceData = <<>>
    THEN [st EXCEPT !.error = <<NoDataMessage>>, !.loading = FALSE]
    ELSE LET foundDevice == Find(saved.deviceData[1], st.deviceId)
         IN  IF foundDevice = <<>>
             THEN [st EXCEPT !.error = <<NotFoundMessage>>, !.loading = FALSE]
             ELSE [st EXCEPT !.device = foundDevice, !.loading = FALSE]

\* what the page renders: the spinner, the error panel or the device
View(st) ==
    IF st.loading THEN "loading"
    ELSE IF st.error # <<>> \/ st.device = <<>> THEN "error"
    ELSE "device"

\* what the store can hold: nothing, or the result of a successful upload
StorePool ==
    {NoStore} \cup
    {NewStore(NoStore, File(<<"a">> \o DotCsv, TRUE, rows), 0) :
        rows \in {r \in SeqsUpTo(QueryRows, MaxQueryRows) :
                    ProcessInheritance(r) # <<>>}}

DeviceIdPool == {<<"device", n>> : n \in 1..(MaxQueryRows + 1)}

InitDetail ==
    /\ store \in StorePool
    /\ detail \in {Mounted(deviceId) : deviceId \in DeviceIdPool}
    /\ analysis = NotMounted
    /\ tasks = <<>> /\ loading = FALSE /\ error = <<>> /\ now = 0
    /\ ParseIdle /\ NoiseIdle /\ RoundTripIdle /\ AnalyzeIdle

\* useEffect(() => { loadDeviceData(); }, [deviceId]) after the mount
RunLoadDeviceData ==
    /\ detail.loading
    /\ detail' = LoadDeviceData(detail, store)
    /\ UNCHANGED <<analysis, parseVars, noiseVars, roundTripVars,
                   uploadVars, analyzeVars>>

NextDetail == RunLoadDeviceData

SpecDetail == InitDetail /\ [][NextDetail]_vars

\* the devices of the stored list that have the id of the route
StoredWithId ==
    IF store.deviceData = <<>> THEN {}
    ELSE {d \in {store.deviceData[1][k] :
                    k \in 1..Len(store.deviceData[1])} :
            d.id = detail.deviceId}

(***************************************************************************)
(* C25: the lookup of a device by id ends in one of three outcomes: the    *)
(* device is shown when the stored list has a device with that id; the     *)
(* 'device not found' message is shown when a list is stored without such  *)
(* a device; the 'no data, upload first' message is shown when nothing is  *)
(* stored.  The two messages are different texts, and each appears in its  *)
(* own case only.                                                          *)
(***************************************************************************)
C25_LookupOutcomes ==
    (detail.mounted /\ ~detail.loading) =>
        /\ NoDataMessage # NotFoundMessage
        /\ StoredWithId # {} =>
              /\ View(detail) = "device"
              /\ detail.device[1] \in StoredWithId
              /\ detail.error = <<>>
        /\ (store.deviceData # <<>> /\ StoredWithId = {}) =>
              /\ View(detail) = "error"
              /\ detail.error = <<NotFoundMessage>>
        /\ store.deviceData = <<>> =>
              /\ View(detail) = "error"
              /\ detail.error = <<NoDataMessage>>

\* two devices are stored and the route names a third
C25_Witness ==
    /\ detail.mounted /\ ~detail.loading
    /\ store.deviceData # <<>>
    /\ Len(store.deviceData[1]) = 2
    /\ detail.deviceId = <<"device", 3>>
    /\ detail.error = <<NotFoundMessage>>
    /\ View(detail) = "error"

\* R holds devices of L, each once, unmodified and in the order of L
IsSubsequenceOf(R, L) ==
    LET InR(d) == \E i \in 1..Len(R) : R[i] = d
    IN  R = SelectSeq(L, InR)

(***************************************************************************)
(* C26: search and filter commute and only select: for every Device list,  *)
(* term and criteria, filterDevices(searchDevices(L, t), c) equals         *)
(* searchDevices(filterDevices(L, c), t), and the result is a subsequence  *)
(* of L (no device added, duplicated, modified or reordered).              *)
(***************************************************************************)
C26_SearchFilterCommute ==
    Returned("searchAndFilter") =>
        /\ result[1].searchFirst = result[1].filterFirst
        /\ IsSubsequenceOf(result[1].searchFirst, deviceData)
        /\ IsSubsequenceOf(result[1].filterFirst, deviceData)

\* of three devices the search keeps the first two and the filter the
\* second only
C26_Witness ==
    /\ Returned("searchAndFilter")
    /\ Len(deviceData) = 3
    /\ SearchDevices(deviceData, query.term) = <<deviceData[1], deviceData[2]>>
    /\ FilterDevices(deviceData, query.filters) = <<deviceData[2]>>
    /\ result[1].searchFirst = <<deviceData[2]>>
    /\ result[1].filterFirst = <<deviceData[2]>>

PageSize == 10

MaxStored == 25

\* FilterOptions of useState<FilterOptions>({})
NoFilters == Criteria(Undefined, Undefined, Undefined, Undefined)

\* the state of the page when it is mounted; event and previousPage are
\* history fields: the last event and the page shown when it arrived
MountedAnalysis ==
    [mounted |-> TRUE, devices |-> <<>>, filteredDevices |-> <<>>,
     statistics |-> <<>>, loading |-> TRUE, error |-> <<>>,
     searchTerm |-> <<>>, filters |-> NoFilters, currentPage |-> 1,
     event |-> "mount", previousPage |-> 1]

LoadData(st, saved) ==
    IF saved.deviceData = <<>>
    THEN [st EXCEPT !.error = <<NoDataMessage>>, !.loading = FALSE]
    ELSE [st EXCEPT !.devices = saved.deviceData[1],
                    !.statistics = <<GenerateStatistics(saved.deviceData[1])>>,
                    !.loading = FALSE]

ApplyFiltersAndSearchKeepPage(st) ==
    LET searched == IF Truthy(st.searchTerm)
                    THEN SearchDevices(st.devices, st.searchTerm)
                    ELSE st.devices
    IN  [st EXCEPT !.filteredDevices = FilterDevices(searched, st.filters)]

ApplyFiltersAndSearch(st) ==
    LET searched == IF Truthy(st.searchTerm)
                    THEN SearchDevices(st.devices, st.searchTerm)
                    ELSE st.devices
    IN  [st EXCEPT !.filteredDevices = FilterDevices(searched, st.filters),
                   !.currentPage = 1]

\* paginatedData = paginateDevices(filteredDevices, currentPage, pageSize)
PaginatedData(st) == PaginateDevices(st.filteredDevices, st.currentPage, PageSize)

\* value || undefined
ValueOrUndefined(value) == IF Truthy(value) THEN value ELSE Undefined

\* device rows only, so that n rows are stored as n devices
StoredRows(n) ==
    LET cycle == << Row(HC001, L1, N1, S1, <<"2">>, <<"5", "K", "W">>, <<>>),
                    Row(XY002, <<"L", "A">>, <<"n", "1">>, <<"s", "1">>,
                        <<"1">>, <<"3", "K", "W">>, <<>>),
                    Row(A1, <<>>, <<>>, <<>>, <<>>, <<>>, <<>>),
                    Row(B2, <<"L", " ", "a">>, N1, <<>>, <<"2">>,
                        <<"0", ".", "5", "k", "w">>, <<>>) >>
    IN  [k \in 1..n |-> cycle[((k - 1) % Len(cycle)) + 1]]

\* nothing stored, or a list of one page, of two pages, of three pages
AnalysisStorePool ==
    {NoStore} \cup
    {NewStore(NoStore, File(<<"a">> \o DotCsv, TRUE, StoredRows(n)), 0) :
        n \in {1, PageSize + 1, MaxStored}}

\* what is typed into the search box
TypedTerms == {<<>>, <<"n", "1", " ">>, <<"z">>}

\* what is typed into the three filter inputs
TypedFilters ==
    [deviceCode   |-> {<<>>, <<"H", "C", "-", "0">>},
     workLocation |-> {<<>>, <<"l", "a">>},
     name         |-> {<<>>, <<"n", "1">>}]

InitAnalysisPage ==
    /\ store \in AnalysisStorePool
    /\ analysis = MountedAnalysis
    /\ detail = NotMounted
    /\ tasks = <<>> /\ loading = FALSE /\ error = <<>> /\ now = 0
    /\ ParseIdle /\ NoiseIdle /\ RoundTripIdle /\ AnalyzeIdle

\* what an event leaves alone
pageFrame == <<detail, parseVars, noiseVars, roundTripVars, uploadVars,
               analyzeVars>>

\* the page takes events once it shows the table
Interactive == analysis.mounted /\ ~analysis.loading /\ analysis.error = <<>>

\* the two effects of the mount: loadData, then applyFiltersAndSearch
RunLoadData ==
    /\ analysis.mounted /\ analysis.loading
    /\ analysis' = ApplyFiltersAndSearch(LoadData(analysis, store))
    /\ UNCHANGED pageFrame

\* onChange of the search box: setSearchTerm(e.target.value)
SetSearchTerm ==
    /\ Interactive
    /\ \E term \in TypedTerms \ {analysis.searchTerm} :
          analysis' = ApplyFiltersAndSearch(
                          [analysis EXCEPT !.searchTerm = term,
                                           !.event = "search",
                                           !.previousPage = analysis.currentPage])
    /\ UNCHANGED pageFrame

HandleFilterChange ==
    /\ Interactive
    /\ \E key \in DOMAIN TypedFilters : \E value \in TypedFilters[key] :
          analysis' = ApplyFiltersAndSearch(
                          [analysis EXCEPT !.filters[key] = ValueOrUndefined(value),
                                           !.event = "filter",
                                           !.previousPage = analysis.currentPage])
    /\ UNCHANGED pageFrame

ClearFilters ==
    /\ Interactive
    /\ analysis' = ApplyFiltersAndSearch(
                       [analysis EXCEPT !.filters = NoFilters,
                                        !.searchTerm = <<>>,
                                        !.event = "clear",
                                        !.previousPage = analysis.currentPage])
    /\ UNCHANGED pageFrame

\* the button previous page: rendered with more than one page, disabled
\* on page 1
PrevPage ==
    /\ Interactive
    /\ PaginatedData(analysis).totalPages > 1
    /\ analysis.currentPage # 1
    /\ analysis' = [analysis EXCEPT
                       !.currentPage = Max({1, analysis.currentPage - 1}),
                       !.event = "previous",
                       !.previousPage = analysis.currentPage]
    /\ UNCHANGED pageFrame

\* the button next page: disabled on the last page
NextPage ==
    /\ Interactive
    /\ PaginatedData(analysis).totalPages > 1
    /\ analysis.currentPage # PaginatedData(analysis).totalPages
    /\ analysis' = [analysis EXCEPT
                       !.currentPage = Min({PaginatedData(analysis).totalPages,
                                            analysis.currentPage + 1}),
                       !.event = "next",
                       !.previousPage = analysis.currentPage]
    /\ UNCHANGED pageFrame

NextAnalysisPage ==
    \/ RunLoadData \/ SetSearchTerm \/ HandleFilterChange \/ ClearFilters
    \/ PrevPage \/ NextPage

SpecAnalysisPage == InitAnalysisPage /\ [][NextAnalysisPage]_vars

(***************************************************************************)
(* C27: the number of device rows validateData counts equals the number of *)
(* Devices processInheritance returns for the same row sequence; in        *)
(* particular, whenever validateData returns isValid = TRUE,               *)
(* processInheritance returns at least one device.                         *)
(***************************************************************************)
C27_CountedRowsAreDevices ==
    (Validated /\ Reconstructed) =>
        /\ DeviceCount(input.rows) = Len(devices[1])
        /\ validation[1].isValid => Len(devices[1]) >= 1

(***************************************************************************)
(* C29: while the upload page is mounted (no upload has stored its devices *)
(* and navigated away), the loading flag is TRUE in every state in which   *)
(* an upload has started and not yet finished, a second upload started     *)
(* during the first one included, and FALSE once every started upload has  *)
(* finished.                                                               *)
(***************************************************************************)
C29_LoadingWhilePending ==
    (\A u \in 1..Len(tasks) : tasks[u].outcome # "stored") =>
        /\ (\E u \in 1..Len(tasks) : tasks[u].pc = "awaiting") => loading
        /\ (tasks # <<>> /\ \A u \in 1..Len(tasks) : tasks[u].pc = "done")
              => ~loading

(***************************************************************************)
(* C30: on the Analysis page, after any sequence of search-term changes,   *)
(* filter changes, clear-filters and previous/next clicks, currentPage is  *)
(* within 1..max(1, totalPages) of the currently filtered list, and it is  *)
(* 1 after every step that changes the search term or the filters.         *)
(***************************************************************************)
PageInRange(st) ==
    st.currentPage \in 1..Max({1, CeilDiv(Len(st.filteredDevices), PageSize)})

C30_CurrentPageInRange ==
    [][analysis'.mounted =>
          /\ PageInRange(analysis')
          /\ analysis'.filteredDevices =
                FilterDevices(SearchDevices(analysis'.devices,
                                            analysis'.searchTerm),
                              analysis'.filters)
          /\ (analysis.mounted /\
              (analysis'.searchTerm # analysis.searchTerm \/
               analysis'.filters # analysis.filters))
                => analysis'.currentPage = 1]_vars

\* the third page was shown when a search term was typed that leaves two
\* pages
C30_Witness ==
    /\ analysis.mounted
    /\ analysis.event = "search"
    /\ analysis.previousPage = 3
    /\ analysis.currentPage = 1
    /\ analysis.searchTerm = <<"n", "1", " ">>
    /\ PaginatedData(analysis).totalPages = 2

====
